---- MODULE Spec2Model ----
(***************************************************************************)
(* The timeline page of src/pages/index.tsx: Home, Feed and                *)
(* CreatePostWizard, together with the two collaborators they talk to, the *)
(* query cache behind api.post.getAll.useQuery / invalidate and the remote *)
(* post endpoint.  The components are translated from the source; the      *)
(* cache and the endpoint are not part of the source file and follow the   *)
(* contract of the specification (sections 4.1 and 6).                     *)
(***************************************************************************)
EXTENDS Integers, Sequences, FiniteSets, TLC

\* ------------------------------------------------------------- bounds
\* Number of posts the remote store accepts in one run.
MaxPosts == 2
\* Number of create calls the user issues in one run.
MaxCreates == 3

\* Values the user can type into the draft field.
Drafts == {"", "a", "b"}
\* Messages a field-validation payload can carry.
Messages == {"", "Content too long"}

\* ------------------------------------------------------------- optional values
\* undefined / null, and a present value, of an optional property.
Undefined == <<>>
Some(v) == <<v>>
IsDefined(o) == o # Undefined
Get(o) == o[1]

\* ------------------------------------------------------------- query keys
\* api.post.getAll.useQuery() in Home.
HomeQueryKey == "post.getAll"
\* Feed subscribing under a key of its own.
FeedQueryKeyOther == "post.getAll.feed"
\* api.post.getAll.useQuery() in Feed.
FeedQueryKey == "post.getAll"
\* onSuccess invalidating another query of the post router.
InvalidateKeyOther == "post.getById"
\* ctx.post.getAll.invalidate() in onSuccess.
InvalidateKey == "post.getAll"
Keys == {HomeQueryKey, FeedQueryKey, InvalidateKey}

\* ------------------------------------------------------------- create errors
\* The error of a failed post.create: e.data may be missing, e.data.zodError
\* may be null, and fieldErrors.content may be missing or a list of strings.
ContentLists == {<<>>} \cup {<<m>> : m \in Messages}
                       \cup {<<m, n>> : m \in Messages, n \in {"Only emojis"}}
ZodErrors == {[fieldErrors |-> [content |-> c]] :
                 c \in {Undefined} \cup {Some(l) : l \in ContentLists}}
Errors == {[data |-> Undefined]}
            \cup {[data |-> Some([zodError |-> z])] :
                     z \in {Undefined} \cup {Some(ze) : ze \in ZodErrors}}
NoError == [data |-> Undefined]

\* The message of the else branch of onError.
Fallback == "Too many recent posts! Try again later."

\* const errorMessage = e.data?.zodError?.fieldErrors.content
ErrorMessage(e) ==
    IF ~IsDefined(e.data) THEN Undefined
    ELSE IF ~IsDefined(Get(e.data).zodError) THEN Undefined
    ELSE Get(Get(e.data).zodError).fieldErrors.content

\* errorMessage?.[0], as an optional string.
FirstMessage(e) ==
    LET em == ErrorMessage(e) IN
    IF ~IsDefined(em) THEN Undefined
    ELSE IF Len(Get(em)) = 0 THEN Undefined
    ELSE Some(Get(em)[1])

\* The condition of `if (errorMessage?.[0])`: JavaScript truthiness of an
\* optional string, false for undefined and for the empty string.
Truthy(o) == IsDefined(o) /\ Get(o) # ""

\* The message onError hands to toast.error.
ToastMessage(e) ==
    IF Truthy(FirstMessage(e)) THEN Get(FirstMessage(e)) ELSE Fallback

\* ------------------------------------------------------------- state
VARIABLES
    user,            \* useUser(): "loading", "signedIn" or "signedOut"
    subscribers,     \* components whose useQuery is mounted
    cache,           \* query cache: key -> entry
    fetchSt,         \* key -> "idle" | "sent" | "served": the getAll call in flight
    fetchResp,       \* key -> the sequence the endpoint answered with
    refetchQ,        \* key -> number of scheduled background refetches
    netCalls,        \* number of post.getAll network calls issued so far
    serverPosts,     \* the remote store, newest first
    input,           \* useState(""): the draft
    isPosting,       \* isLoading of the create mutation
    creates,         \* create calls in flight
    createCalls,     \* number of post.create calls issued so far
    pc,              \* "idle", or "onSuccess" between the two statements of onSuccess
    handling,        \* the creation whose onSuccess is running
    invalidateCalls, \* number of invalidate() calls issued so far
    toastCount,      \* number of toast.error calls so far
    lastToast,       \* the message of the last toast.error call
    acked            \* ids of the posts whose onSuccess has run

vars == <<user, subscribers, cache, fetchSt, fetchResp, refetchQ, netCalls,
          serverPosts, input, isPosting, creates, createCalls, pc, handling,
          invalidateCalls, toastCount, lastToast, acked>>

cacheVars == <<cache, fetchSt, fetchResp, refetchQ, netCalls>>
wizardVars == <<input, isPosting, creates, createCalls, pc, handling,
                invalidateCalls, toastCount, lastToast, acked>>

\* ------------------------------------------------------------- query cache
NoEntry == [exists |-> FALSE, data |-> Undefined, isLoading |-> FALSE,
            isError |-> FALSE, isStale |-> FALSE]

\* subscribe(key): the first subscription creates the entry and issues the
\* initial fetch; a later one joins the entry as it is.
Subscribe(k) ==
    IF cache[k].exists
    THEN UNCHANGED cacheVars
    ELSE /\ cache' = [cache EXCEPT ![k] = [exists |-> TRUE, data |-> Undefined,
                                            isLoading |-> TRUE, isError |-> FALSE,
                                            isStale |-> FALSE]]
         /\ fetchSt' = [fetchSt EXCEPT ![k] = "sent"]
         /\ netCalls' = netCalls + 1
         /\ UNCHANGED <<fetchResp, refetchQ>>

\* Every invalidate(key) scheduling a refetch of its own.
ScheduledEach(n) == n + 1
\* How many refetches are scheduled after one more invalidate(key).
Scheduled(n) == IF n > 0 THEN n ELSE 1

\* invalidate(key): marks the entry stale and schedules a background refetch;
\* returns at once.
Invalidate(k) ==
    IF k \in DOMAIN cache /\ cache[k].exists
    THEN /\ cache' = [cache EXCEPT ![k].isStale = TRUE]
         /\ refetchQ' = [refetchQ EXCEPT ![k] = Scheduled(refetchQ[k])]
         /\ UNCHANGED <<fetchSt, fetchResp, netCalls>>
    ELSE UNCHANGED cacheVars

\* The scheduled background refetch starts once no fetch for the key is in
\* flight.
StartRefetch(k) ==
    /\ pc = "idle"
    /\ refetchQ[k] > 0
    /\ fetchSt[k] = "idle"
    /\ refetchQ' = [refetchQ EXCEPT ![k] = refetchQ[k] - 1]
    /\ fetchSt' = [fetchSt EXCEPT ![k] = "sent"]
    /\ netCalls' = netCalls + 1
    /\ cache' = [cache EXCEPT ![k].isLoading = ~IsDefined(cache[k].data)]
    /\ UNCHANGED <<fetchResp, user, subscribers, serverPosts>>
    /\ UNCHANGED wizardVars

\* post.getAll() on the endpoint: answers with the store as it is now.
ServeGetAll(k) ==
    /\ pc = "idle"
    /\ fetchSt[k] = "sent"
    /\ fetchSt' = [fetchSt EXCEPT ![k] = "served"]
    /\ fetchResp' = [fetchResp EXCEPT ![k] = serverPosts]
    /\ UNCHANGED <<cache, refetchQ, netCalls, user, subscribers, serverPosts>>
    /\ UNCHANGED wizardVars

\* The answer arrives: the entry is replaced wholesale.  It stays stale when
\* an invalidation arrived while the fetch was in flight.
FetchSuccess(k) ==
    /\ pc = "idle"
    /\ fetchSt[k] = "served"
    /\ fetchSt' = [fetchSt EXCEPT ![k] = "idle"]
    /\ fetchResp' = [fetchResp EXCEPT ![k] = <<>>]
    /\ cache' = [cache EXCEPT ![k] = [exists |-> TRUE,
                                      data |-> Some(fetchResp[k]),
                                      isLoading |-> FALSE, isError |-> FALSE,
                                      isStale |-> refetchQ[k] > 0]]
    /\ UNCHANGED <<refetchQ, netCalls, user, subscribers, serverPosts>>
    /\ UNCHANGED wizardVars

\* The fetch fails: isError is set and prior data is left untouched.
FetchFailure(k) ==
    /\ pc = "idle"
    /\ fetchSt[k] # "idle"
    /\ fetchSt' = [fetchSt EXCEPT ![k] = "idle"]
    /\ fetchResp' = [fetchResp EXCEPT ![k] = <<>>]
    /\ cache' = [cache EXCEPT ![k].isLoading = FALSE, ![k].isError = TRUE]
    /\ UNCHANGED <<refetchQ, netCalls, user, subscribers, serverPosts>>
    /\ UNCHANGED wizardVars

\* ------------------------------------------------------------- Feed
\* !posts.data?.length: an empty list taken for no data.
NoDataOrEmpty(q) == ~IsDefined(q.data) \/ Len(Get(q.data)) = 0
\* !posts.data
NoData(q) == ~IsDefined(q.data)

\* posts.data.map(postWithAuthor => <PostView ... />)
PostViews(data) == [i \in 1..Len(data) |-> data[i]]

\* Feed testing posts.isError before it looks at the data.
RenderErrorFirst(q) ==
    IF q.isLoading THEN [view |-> "loading", items |-> <<>>]
    ELSE IF q.isError \/ NoData(q) THEN [view |-> "error", items |-> <<>>]
    ELSE [view |-> "list", items |-> PostViews(Get(q.data))]

\* What Feed returns for the query result q.
Render(q) ==
    IF q.isLoading THEN [view |-> "loading", items |-> <<>>]
    ELSE IF NoData(q) THEN [view |-> "error", items |-> <<>>]
    ELSE [view |-> "list", items |-> PostViews(Get(q.data))]

\* The feed area of the page.
FeedView == Render(cache[FeedQueryKey])

\* ------------------------------------------------------------- Home
\* Home mounts: its useQuery subscribes before anything else renders.
MountHome ==
    /\ "Home" \notin subscribers
    /\ subscribers' = subscribers \cup {"Home"}
    /\ Subscribe(HomeQueryKey)
    /\ UNCHANGED <<user, serverPosts>>
    /\ UNCHANGED wizardVars

\* useUser() finishes loading: Home renders CreatePostWizard and Feed, and
\* Feed's useQuery subscribes.
UserLoaded(signedIn) ==
    /\ "Home" \in subscribers
    /\ user = "loading"
    /\ user' = IF signedIn THEN "signedIn" ELSE "signedOut"
    /\ subscribers' = subscribers \cup {"Feed"}
    /\ Subscribe(FeedQueryKey)
    /\ UNCHANGED serverPosts
    /\ UNCHANGED wizardVars

\* ------------------------------------------------------------- CreatePostWizard
\* if (!user) return null, below Home's isLoaded test.
WizardRendered == user = "signedIn"

\* The draft field without its disabled attribute.
InputNeverDisabled == FALSE
\* disabled={isPosting} on the draft field.
InputDisabled == isPosting

\* {input !== "" && !isPosting && <button>}
PostButtonRendered == WizardRendered /\ input # "" /\ ~isPosting

\* mutate({ content }): a new create call; the mutation result follows it.
Mutate(content) ==
    /\ createCalls < MaxCreates
    /\ creates' = [i \in 1..Len(creates) |-> [creates[i] EXCEPT !.current = FALSE]]
                    \o <<[content |-> content, current |-> TRUE, status |-> "sent",
                          postId |-> 0, error |-> NoError]>>
    /\ createCalls' = createCalls + 1
    /\ isPosting' = TRUE
    /\ UNCHANGED <<input, pc, handling, invalidateCalls, toastCount, lastToast, acked>>
    /\ UNCHANGED <<user, subscribers, serverPosts>>
    /\ UNCHANGED cacheVars

\* onChange={(e) => setInput(e.target.value)}
OnChange(v) ==
    /\ pc = "idle"
    /\ WizardRendered
    /\ ~InputDisabled
    /\ input' = v
    /\ UNCHANGED <<isPosting, creates, createCalls, pc, handling, invalidateCalls,
                   toastCount, lastToast, acked>>
    /\ UNCHANGED <<user, subscribers, serverPosts>>
    /\ UNCHANGED cacheVars

\* onKeyDown with e.key === "Enter"
OnKeyDownEnter ==
    /\ pc = "idle"
    /\ WizardRendered
    /\ ~InputDisabled
    /\ input # ""
    /\ Mutate(input)

\* onClick of the Post button
OnClickPost ==
    /\ pc = "idle"
    /\ PostButtonRendered
    /\ Mutate(input)

\* ------------------------------------------------------------- remote create
Remove(s, i) == [j \in 1..(Len(s) - 1) |-> IF j < i THEN s[j] ELSE s[j + 1]]

\* post.create succeeds on the endpoint: the post is stored, newest first.
ServeCreateOk(i) ==
    /\ pc = "idle"
    /\ creates[i].status = "sent"
    /\ Len(serverPosts) < MaxPosts
    /\ LET id == Len(serverPosts) + 1 IN
         /\ serverPosts' = <<[id |-> id, content |-> creates[i].content]>> \o serverPosts
         /\ creates' = [creates EXCEPT ![i].status = "ok", ![i].postId = id]
    /\ UNCHANGED <<input, isPosting, createCalls, pc, handling, invalidateCalls,
                   toastCount, lastToast, acked>>
    /\ UNCHANGED <<user, subscribers>>
    /\ UNCHANGED cacheVars

\* post.create fails on the endpoint with error e.
ServeCreateError(i, e) ==
    /\ pc = "idle"
    /\ creates[i].status = "sent"
    /\ creates' = [creates EXCEPT ![i].status = "err", ![i].error = e]
    /\ UNCHANGED <<input, isPosting, createCalls, pc, handling, invalidateCalls,
                   toastCount, lastToast, acked>>
    /\ UNCHANGED <<user, subscribers, serverPosts>>
    /\ UNCHANGED cacheVars

\* ------------------------------------------------------------- mutation callbacks
\* onSuccess with its two statements swapped.
OnSuccessBodySwapped == <<"invalidate", "setInput">>
\* The statements of onSuccess, in source order.
OnSuccessBody == <<"setInput", "invalidate">>

\* One statement of onSuccess: setInput("") or
\* void ctx.post.getAll.invalidate().
Exec(stmt) ==
    IF stmt = "setInput"
    THEN /\ input' = ""
         /\ UNCHANGED invalidateCalls
         /\ UNCHANGED cacheVars
    ELSE /\ Invalidate(InvalidateKey)
         /\ invalidateCalls' = invalidateCalls + 1
         /\ UNCHANGED input

\* Whether onSuccess hands the promise of invalidate() back to the mutation,
\* which would then stay pending until the refetch is over.  The source
\* discards it (`void`, no return), so the mutation settles at once.
AwaitsInvalidate == FALSE

\* The success answer arrives and onSuccess runs its first statement.
OnSuccessFirst(i) ==
    /\ pc = "idle"
    /\ creates[i].status = "ok"
    /\ creates' = Remove(creates, i)
    /\ handling' = [postId |-> creates[i].postId, current |-> creates[i].current]
    /\ Exec(OnSuccessBody[1])
    /\ pc' = "onSuccess"
    /\ UNCHANGED <<isPosting, createCalls, toastCount, lastToast, acked>>
    /\ UNCHANGED <<user, subscribers, serverPosts>>

\* onSuccess runs its second statement and returns; the mutation settles.
OnSuccessSecond ==
    /\ pc = "onSuccess"
    /\ Exec(OnSuccessBody[2])
    /\ isPosting' = IF handling.current THEN AwaitsInvalidate ELSE isPosting
    /\ acked' = acked \cup {handling.postId}
    /\ handling' = [postId |-> 0, current |-> FALSE]
    /\ pc' = "idle"
    /\ UNCHANGED <<creates, createCalls, toastCount, lastToast>>
    /\ UNCHANGED <<user, subscribers, serverPosts>>

\* onError clearing the draft as onSuccess does.
OnErrorClearsInput(i) ==
    /\ pc = "idle"
    /\ creates[i].status = "err"
    /\ creates' = Remove(creates, i)
    /\ toastCount' = toastCount + 1
    /\ lastToast' = ToastMessage(creates[i].error)
    /\ isPosting' = IF creates[i].current THEN FALSE ELSE isPosting
    /\ input' = ""
    /\ UNCHANGED <<createCalls, pc, handling, invalidateCalls, acked>>
    /\ UNCHANGED <<user, subscribers, serverPosts>>
    /\ UNCHANGED cacheVars

\* The error answer arrives and onError runs; the mutation settles.
OnError(i) ==
    /\ pc = "idle"
    /\ creates[i].status = "err"
    /\ creates' = Remove(creates, i)
    /\ toastCount' = toastCount + 1
    /\ lastToast' = ToastMessage(creates[i].error)
    /\ isPosting' = IF creates[i].current THEN FALSE ELSE isPosting
    /\ UNCHANGED <<input, createCalls, pc, handling, invalidateCalls, acked>>
    /\ UNCHANGED <<user, subscribers, serverPosts>>
    /\ UNCHANGED cacheVars

\* ------------------------------------------------------------- specification
Init ==
    /\ user = "loading"
    /\ subscribers = {}
    /\ cache = [k \in Keys |-> NoEntry]
    /\ fetchSt = [k \in Keys |-> "idle"]
    /\ fetchResp = [k \in Keys |-> <<>>]
    /\ refetchQ = [k \in Keys |-> 0]
    /\ netCalls = 0
    /\ serverPosts = <<>>
    /\ input = ""
    /\ isPosting = FALSE
    /\ creates = <<>>
    /\ createCalls = 0
    /\ pc = "idle"
    /\ handling = [postId |-> 0, current |-> FALSE]
    /\ invalidateCalls = 0
    /\ toastCount = 0
    /\ lastToast = ""
    /\ acked = {}

\* Every step but a failing feed fetch.
Answered ==
    \/ MountHome
    \/ \E b \in BOOLEAN : UserLoaded(b)
    \/ \E k \in Keys : StartRefetch(k)
    \/ \E k \in Keys : ServeGetAll(k)
    \/ \E k \in Keys : FetchSuccess(k)
    \/ \E v \in Drafts : OnChange(v)
    \/ OnKeyDownEnter
    \/ OnClickPost
    \/ \E i \in DOMAIN creates : ServeCreateOk(i)
    \/ \E i \in DOMAIN creates : \E e \in Errors : ServeCreateError(i, e)
    \/ \E i \in DOMAIN creates : OnSuccessFirst(i)
    \/ OnSuccessSecond
    \/ \E i \in DOMAIN creates : OnError(i)

Next ==
    \/ Answered
    \/ \E k \in Keys : FetchFailure(k)

Spec == Init /\ [][Next]_vars

\* The page with a remote store that answers every post.getAll: a handler
\* that has started runs to its end, a scheduled refetch is started, and a
\* call that was sent is served and its answer delivered.
LiveSpec ==
    /\ Init
    /\ [][Answered]_vars
    /\ WF_vars(OnSuccessSecond)
    /\ WF_vars(\E k \in Keys : StartRefetch(k))
    /\ WF_vars(\E k \in Keys : ServeGetAll(k))
    /\ WF_vars(\E k \in Keys : FetchSuccess(k))

\* ------------------------------------------------------------- properties
\* A step that issues a post.create call, an invalidate() call, a toast.
CreateIssued == createCalls' # createCalls
InvalidateIssued == invalidateCalls' # invalidateCalls
ErrorShown == toastCount' # toastCount

\* C1: a create call is issued only when the draft is not empty and no
\* creation is pending, by the Post button or by Enter; so at most one
\* creation is in flight, and a second submit while one is pending issues
\* nothing.
C1_SingleCreate ==
    /\ [](Len(creates) <= 1)
    /\ [][CreateIssued =>
            /\ input # ""
            /\ ~isPosting
            /\ creates = <<>>
            /\ createCalls' = createCalls + 1
            /\ Len(creates') = 1
            /\ creates'[1].content = input]_vars

\* A second creation is pending with a non-empty draft in the field.
C1_Witness ==
    /\ createCalls = 2
    /\ isPosting
    /\ Len(creates) = 1
    /\ input # ""

\* C2: on success the draft is cleared first and invalidate is issued after
\* it, never while the draft still holds the submitted text; the controller
\* is Idle again in that same step, with the refetch still only scheduled.
C2_ClearThenInvalidate ==
    [][/\ (isPosting /\ ~isPosting' /\ ~ErrorShown) =>
              (InvalidateIssued /\ input = "" /\ input' = "")
       /\ InvalidateIssued =>
              /\ input = ""
              /\ invalidateCalls' = invalidateCalls + 1
              /\ ~isPosting'
              /\ pc' = "idle"
              /\ refetchQ'[InvalidateKey] > 0
              /\ netCalls' = netCalls]_vars

\* The controller is Idle with an empty draft while the refetch that its
\* invalidation caused is still in flight.
C2_Witness ==
    /\ pc = "idle"
    /\ ~isPosting
    /\ invalidateCalls = 1
    /\ input = ""
    /\ netCalls = 2
    /\ fetchSt[InvalidateKey] = "sent"

\* The entry is trusted: it holds data and is not marked stale.
Fresh(q) == q.exists /\ IsDefined(q.data) /\ ~q.isStale

\* s is the tail of t: what the store held at some earlier time.
IsSuffix(s, t) ==
    /\ Len(s) <= Len(t)
    /\ \A j \in 1..Len(s) : s[j] = t[Len(t) - Len(s) + j]

\* Feed renders the post with this id.
Rendered(id) ==
    /\ "Feed" \in subscribers
    /\ FeedView.view = "list"
    /\ \E j \in 1..Len(FeedView.items) : FeedView.items[j].id = id

\* C3: a successful creation marks the feed entry stale and schedules its
\* refetch; the entry is not fresh again before it holds every post whose
\* creation has succeeded; what Feed shows is the store's own order; and,
\* with a store that answers, every created post is eventually rendered.
C3_PostAppears ==
    /\ [][InvalidateIssued =>
            /\ cache'[FeedQueryKey].isStale
            /\ refetchQ'[FeedQueryKey] > 0]_vars
    /\ [](Fresh(cache[FeedQueryKey]) =>
            \A id \in acked :
                \E j \in 1..Len(Get(cache[FeedQueryKey].data)) :
                    Get(cache[FeedQueryKey].data)[j].id = id)
    /\ []((FeedView.view = "list") => IsSuffix(FeedView.items, serverPosts))
    /\ \A id \in 1..MaxPosts : (id \in acked) ~> Rendered(id)

\* Both created posts are rendered from a fresh entry, newest first.
C3_Witness ==
    /\ acked = {1, 2}
    /\ Fresh(cache[FeedQueryKey])
    /\ Rendered(2)
    /\ FeedView.items = serverPosts
    /\ FeedView.items[1].id = 2

\* The message the claim C4 expects for error e: the first message of a
\* non-empty content list, whatever it is, else the fallback.
ClaimedMessage(e) ==
    LET em == ErrorMessage(e) IN
    IF IsDefined(em) /\ Len(Get(em)) > 0 THEN Get(em)[1] ELSE Fallback

\* C4: on every failed creation exactly one message is shown: the first
\* message of the content field's error list when that list is not empty,
\* whatever that message is, and the generic fallback otherwise.
C4_FirstMessageShown ==
    [][ErrorShown =>
          /\ toastCount' = toastCount + 1
          /\ \A i \in DOMAIN creates :
                (creates[i].status = "err" /\ creates' = Remove(creates, i))
                    => lastToast' = ClaimedMessage(creates[i].error)]_vars

\* C5: a failed creation leaves the draft as it was submitted, issues no
\* invalidate and touches no cache entry, and leaves the controller Idle with
\* the Post button rendered and the field enabled, ready to submit again.
C5_DraftKeptOnError ==
    [][ErrorShown =>
          /\ input' = input
          /\ \A i \in DOMAIN creates :
                creates[i].status = "err" => creates[i].content = input
          /\ ~InvalidateIssued
          /\ UNCHANGED cacheVars
          /\ ~isPosting'
          /\ pc' = "idle"
          /\ PostButtonRendered'
          /\ ~InputDisabled']_vars

\* A creation has failed and the submitted draft is still in the field.
C5_Witness ==
    /\ toastCount = 1
    /\ createCalls = 1
    /\ creates = <<>>
    /\ ~isPosting
    /\ input = "a"
    /\ lastToast = "Content too long"

\* C6: when Feed subscribes while the fetch Home started is in flight, no
\* further post.getAll call is issued and the fetch in flight is shared; up
\* to the first invalidation there is one network call, and both subscribers
\* read the same entry.
C6_SharedFetch ==
    /\ [][("Feed" \notin subscribers /\ "Feed" \in subscribers'
              /\ fetchSt[HomeQueryKey] # "idle") =>
            /\ netCalls' = netCalls
            /\ fetchSt' = fetchSt
            /\ cache' = cache]_vars
    /\ []((subscribers = {"Home", "Feed"}) =>
            /\ cache[HomeQueryKey] = cache[FeedQueryKey]
            /\ fetchSt[HomeQueryKey] = fetchSt[FeedQueryKey]
            /\ (invalidateCalls = 0 => netCalls = 1))

\* Both subscriptions overlap the one fetch in flight.
C6_Witness ==
    /\ subscribers = {"Home", "Feed"}
    /\ fetchSt[HomeQueryKey] = "served"
    /\ cache[FeedQueryKey].isLoading
    /\ netCalls = 1

\* C7: Feed renders by a total three-way policy: loading without data gives
\* the loading state, not loading without data gives the failure state, and
\* everything else gives the delivered sequence, element for element; an
\* entry with data = [] gives the empty list, not the failure state.
C7_RenderPolicy ==
    "Feed" \in subscribers =>
        LET q == cache[FeedQueryKey] IN
        /\ (q.isLoading /\ ~IsDefined(q.data)) => FeedView.view = "loading"
        /\ (~q.isLoading /\ ~IsDefined(q.data)) => FeedView.view = "error"
        /\ ~(~IsDefined(q.data)) =>
              /\ FeedView.view = "list"
              /\ FeedView.items = Get(q.data)

\* The entry holds the empty list and Feed renders the empty list.
C7_Witness ==
    /\ "Feed" \in subscribers
    /\ ~cache[FeedQueryKey].isLoading
    /\ cache[FeedQueryKey].data = Some(<<>>)
    /\ FeedView = [view |-> "list", items |-> <<>>]

\* C8: invalidate calls in succession leave at most one refetch scheduled,
\* so they cause one network call; an invalidate that finds a refetch
\* scheduled adds none; and the call returns with the refetch not yet run.
C8_InvalidateIdempotent ==
    /\ [](\A k \in Keys : refetchQ[k] <= 1)
    /\ [](netCalls <= 1 + invalidateCalls)
    /\ [][InvalidateIssued =>
            /\ pc' = "idle"
            /\ netCalls' = netCalls
            /\ fetchSt' = fetchSt
            /\ refetchQ'[InvalidateKey] = 1]_vars

\* Two invalidations in succession, one refetch scheduled, none started.
C8_Witness ==
    /\ invalidateCalls = 2
    /\ netCalls = 1
    /\ refetchQ[InvalidateKey] = 1
    /\ fetchSt[InvalidateKey] = "idle"

\* A step in which the fetch for key k ends in failure.
FetchFailed(k) == fetchSt[k] # "idle" /\ fetchSt'[k] = "idle" /\ cache'[k].isError

\* C9 as stated: every failed feed fetch, the initial one or a refetch with
\* earlier data still held, shows the generic failure message.
C9_EveryFailureShown ==
    [][(FetchFailed(FeedQueryKey) /\ "Feed" \in subscribers') =>
          FeedView'.view = "error"]_vars

\* C9 as amended: a failed fetch leaves the data untouched; Feed then shows
\* the generic failure message when the entry holds no data, and keeps
\* showing the earlier data when it holds some; the view is always one of the
\* three states.
C9_FailureShownWithoutData ==
    /\ []("Feed" \in subscribers => FeedView.view \in {"loading", "error", "list"})
    /\ [][(FetchFailed(FeedQueryKey) /\ "Feed" \in subscribers') =>
            /\ cache'[FeedQueryKey].data = cache[FeedQueryKey].data
            /\ IF IsDefined(cache[FeedQueryKey].data)
               THEN FeedView' = [view |-> "list",
                                 items |-> Get(cache[FeedQueryKey].data)]
               ELSE FeedView'.view = "error"]_vars

\* A refetch has failed while the entry holds a post, and Feed shows it.
C9_Witness ==
    /\ "Feed" \in subscribers
    /\ cache[FeedQueryKey].isError
    /\ IsDefined(cache[FeedQueryKey].data)
    /\ FeedView.view = "list"
    /\ Len(FeedView.items) = 1

\* C10: while a creation is in flight the field is disabled and the Post
\* button is not rendered, so the draft equals the content that was sent;
\* clearing it on success discards nothing typed after submitting.
C10_DraftFrozenWhilePending ==
    \A i \in DOMAIN creates :
        /\ isPosting
        /\ InputDisabled
        /\ ~PostButtonRendered
        /\ creates[i].content = input

\* The endpoint has stored the post and the answer is still on its way.
C10_Witness ==
    /\ Len(creates) = 1
    /\ creates[1].status = "ok"
    /\ input = "b"
    /\ serverPosts # <<>>

====
